---- MODULE Spec2Model ----
(***************************************************************************)
(* Scilla: the interactive dispatch loop (src/main.rs), the transaction    *)
(* assembler build_and_send_tx and the input validators                    *)
(* (src/misc/helpers.rs).                                                  *)
(***************************************************************************)
EXTENDS Integers, Sequences, FiniteSets, TLC

(* ---------------------------- bounds ----------------------------------- *)
MaxPrompts == 4
NumCommands == 2
NumKeys == 2
MaxHash == 2
MaxLen == 4
MaxValue == 300
MaxDepth == 1
MaxAmountLen == 3
MaxSol == 40

Commands == 1..NumCommands
Keys == 1..NumKeys
Hashes == 1..MaxHash

(* ------------------------- values -------------------------------------- *)
\* enum CommandExec<T> { Process(T), GoBack, Exit }
CommandExec == {"Process", "GoBack", "Exit"}

NoErr == [type |-> "none", op |-> "none", anyhow |-> FALSE]
NoSig == [by |-> 0, hash |-> 0]
NoHash == 0
NoCtx == [rpc |-> "none", pubkey |-> 0]
NoTx == [message |-> [payer |-> 0, required |-> {}], signatures |-> {}, recent_blockhash |-> NoHash]

\* an error value as the library or collaborator raises it
Error(type, op) == [type |-> type, op |-> op, anyhow |-> FALSE]

\* the conversion `?` applies into anyhow::Error: the source error is kept
\* inside the anyhow wrapper; an anyhow::Error converts to itself
AnyhowFrom(e) == [e EXCEPT !.anyhow = TRUE]

Ok(v) == [ok |-> TRUE, val |-> v, err |-> NoErr]
Err(none, e) == [ok |-> FALSE, val |-> none, err |-> e]

VARIABLES
    pc,               \* main: "load_config", "from_config", "prompt", "process", "await", "done"
    ctx,              \* ScillaContext built at startup
    command,          \* the command returned by the last prompt
    res,              \* the result of the last process_command
    exit,             \* how the process ended
    prompts,          \* number of calls of prompt_for_command
    execs,            \* number of calls of process_command
    outcomes,         \* the CommandExec values the loop has matched on
    menu,             \* menu level at which the prompting collaborator stands (0 is the root)
    active,           \* commands in execution
    executing,        \* the command process_command is running (0: none)
    cpc,              \* process_command: "idle", "running", "in_tx", "done"
    tpc,              \* build_and_send_tx: "idle", "fetch", "sign", "send", "ret"
    instruction,      \* argument: signer accounts named by the instructions
    signers,          \* argument: the signers provided
    recent_blockhash, \* local of build_and_send_tx
    tx,               \* local of build_and_send_tx
    ret,              \* return value of build_and_send_tx
    trace,            \* steps performed by the current call of build_and_send_tx
    calls,            \* number of calls of build_and_send_tx
    netReads,         \* get_latest_blockhash requests seen by the RPC node
    netWrites,        \* send_and_confirm_transaction requests seen by the RPC node
    input,            \* text typed by the operator
    parsed,           \* result of Commission::from_str on input
    amount,           \* result of SolAmount::from_str on input
    conv              \* arguments and results of the last lamport conversion

mainVars == <<pc, ctx, command, res, exit, prompts, execs, outcomes, menu>>
cmdVars == <<active, executing, cpc>>
txVars == <<tpc, instruction, signers, recent_blockhash, tx, ret, trace, calls, netReads, netWrites>>
parseVars == <<input, parsed, amount, conv>>
vars == <<pc, ctx, command, res, exit, prompts, execs, outcomes, menu, active, executing, cpc,
          tpc, instruction, signers, recent_blockhash, tx, ret, trace, calls,
          netReads, netWrites, input, parsed, amount, conv>>

NoParse == [done |-> FALSE, ok |-> FALSE, val |-> 0]

\* an f64 value: a zero, a finite m * 2^e, an infinity or a NaN, with its
\* sign; m is a wide integer (see below)
F64Zero(neg) == [cls |-> "zero", neg |-> neg, m |-> <<>>, e |-> 0]
F64Inf(neg) == [cls |-> "inf", neg |-> neg, m |-> <<>>, e |-> 0]
F64NaN == [cls |-> "nan", neg |-> FALSE, m |-> <<>>, e |-> 0]

NoAmount == [done |-> FALSE, ok |-> FALSE, err |-> "none", sol |-> F64Zero(FALSE)]
NoConv == [op |-> "none", lamports |-> <<>>, sol |-> F64Zero(FALSE), back |-> <<>>]

Init ==
    /\ pc = "load_config"
    /\ ctx = NoCtx
    /\ command = 0
    /\ res = Err("none", NoErr)
    /\ exit = [status |-> "running", error |-> NoErr]
    /\ prompts = 0
    /\ execs = 0
    /\ outcomes = <<>>
    /\ menu = 0
    /\ active = 0
    /\ executing = 0
    /\ cpc = "idle"
    /\ tpc = "idle"
    /\ instruction = {}
    /\ signers = {}
    /\ recent_blockhash = NoHash
    /\ tx = NoTx
    /\ ret = Err(NoSig, NoErr)
    /\ trace = <<>>
    /\ calls = 0
    /\ netReads = 0
    /\ netWrites = 0
    /\ input = <<>>
    /\ parsed = NoParse
    /\ amount = NoAmount
    /\ conv = NoConv

(* ------------------------- main (src/main.rs) -------------------------- *)

\* main returns Err(e): the process ends reporting e
Fail(e) ==
    /\ pc' = "done"
    /\ exit' = [status |-> "failure", error |-> e]

\* variant of LoadConfig: a failed load is reported and a default is used
LoadConfigOrDefault ==
    /\ pc = "load_config"
    /\ pc' = "from_config"
    /\ \/ UNCHANGED exit
       \/ \E t \in {"ConfigPathDoesNotExist", "IoError", "TomlParseError"} :
             exit' = [status |-> "running", error |-> AnyhowFrom(Error(t, "load"))]
    /\ UNCHANGED <<ctx, command, res, prompts, execs, outcomes, menu>>
    /\ UNCHANGED <<cmdVars, txVars, parseVars>>

\* let config = ScillaConfig::load()?;
LoadConfig ==
    /\ pc = "load_config"
    /\ \/ /\ pc' = "from_config"
          /\ UNCHANGED exit
       \/ \E t \in {"ConfigPathDoesNotExist", "IoError", "TomlParseError"} :
             Fail(AnyhowFrom(Error(t, "load")))
    /\ UNCHANGED <<ctx, command, res, prompts, execs, outcomes, menu>>
    /\ UNCHANGED <<cmdVars, txVars, parseVars>>

\* let ctx = ScillaContext::from_config(config)?;
FromConfig ==
    /\ pc = "from_config"
    /\ \/ /\ \E k \in Keys : ctx' = [rpc |-> "rpc", pubkey |-> k]
          /\ pc' = "prompt"
          /\ UNCHANGED exit
       \/ /\ Fail(AnyhowFrom(Error("Anyhow", "from_config")))
          /\ UNCHANGED ctx
    /\ UNCHANGED <<command, res, prompts, execs, outcomes, menu>>
    /\ UNCHANGED <<cmdVars, txVars, parseVars>>

\* the prompting collaborator: before selecting a command the operator may
\* descend from the level shown into its submenus
MenuLevels(level) == level..MaxDepth

\* the prompting collaborator: the level shown after an outcome; GoBack
\* unwinds to the parent menu (the root has none), the others stay
MenuAfter(outcome, level) ==
    IF outcome = "GoBack" /\ level > 0 THEN level - 1 ELSE level

\* variant of Prompt: the context is built again in every iteration
PromptRebuildsContext ==
    /\ pc = "prompt"
    /\ prompts < MaxPrompts
    /\ prompts' = prompts + 1
    /\ \E k \in Keys : ctx' = [rpc |-> "rpc", pubkey |-> k]
    /\ \/ /\ \E c \in Commands : command' = c
          /\ \E l \in MenuLevels(menu) : menu' = l
          /\ pc' = "process"
          /\ UNCHANGED exit
       \/ /\ Fail(AnyhowFrom(Error("PromptError", "prompt_for_command")))
          /\ UNCHANGED <<command, menu>>
    /\ UNCHANGED <<res, execs, outcomes>>
    /\ UNCHANGED <<cmdVars, txVars, parseVars>>

\* variant of Prompt: a failed prompt is reported and asked again
PromptRetries ==
    /\ pc = "prompt"
    /\ prompts < MaxPrompts
    /\ prompts' = prompts + 1
    /\ \/ /\ \E c \in Commands : command' = c
          /\ \E l \in MenuLevels(menu) : menu' = l
          /\ pc' = "process"
          /\ UNCHANGED exit
       \/ /\ exit' = [status |-> "running",
                      error |-> AnyhowFrom(Error("PromptError", "prompt_for_command"))]
          /\ UNCHANGED <<pc, command, menu>>
    /\ UNCHANGED <<ctx, res, execs, outcomes>>
    /\ UNCHANGED <<cmdVars, txVars, parseVars>>

\* let command = prompt_for_command()?;
Prompt ==
    /\ pc = "prompt"
    /\ prompts < MaxPrompts
    /\ prompts' = prompts + 1
    /\ \/ /\ \E c \in Commands : command' = c
          /\ \E l \in MenuLevels(menu) : menu' = l
          /\ pc' = "process"
          /\ UNCHANGED exit
       \/ /\ Fail(AnyhowFrom(Error("PromptError", "prompt_for_command")))
          /\ UNCHANGED <<command, menu>>
    /\ UNCHANGED <<ctx, res, execs, outcomes>>
    /\ UNCHANGED <<cmdVars, txVars, parseVars>>

\* variant of Process: the command is started but not awaited
ProcessSpawned ==
    /\ pc = "process"
    /\ cpc = "idle"
    /\ pc' = "prompt"
    /\ cpc' = "running"
    /\ execs' = execs + 1
    /\ active' = active + 1
    /\ executing' = command
    /\ UNCHANGED <<ctx, command, res, exit, prompts, outcomes, menu>>
    /\ UNCHANGED <<txVars, parseVars>>

\* variant of Process: the command is run again before the loop goes on
ProcessTwice ==
    /\ \/ pc = "process" /\ cpc = "idle"
       \/ pc = "await" /\ cpc = "done" /\ res.ok /\ execs = prompts
    /\ pc' = "await"
    /\ cpc' = "running"
    /\ execs' = execs + 1
    /\ active' = active + 1
    /\ executing' = command
    /\ UNCHANGED <<ctx, command, res, exit, prompts, outcomes, menu>>
    /\ UNCHANGED <<txVars, parseVars>>

\* command.process_command(&ctx) is called and main awaits it
Process ==
    /\ pc = "process"
    /\ cpc = "idle"
    /\ pc' = "await"
    /\ cpc' = "running"
    /\ execs' = execs + 1
    /\ active' = active + 1
    /\ executing' = command
    /\ UNCHANGED <<ctx, command, res, exit, prompts, outcomes, menu>>
    /\ UNCHANGED <<txVars, parseVars>>

\* variant of Resume: the Exit arm continues instead of breaking
ResumeExitContinues ==
    /\ pc = "await"
    /\ cpc = "done"
    /\ cpc' = "idle"
    /\ executing' = 0
    /\ IF ~res.ok
         THEN /\ Fail(res.err)
              /\ UNCHANGED <<outcomes, menu>>
         ELSE /\ outcomes' = Append(outcomes, res.val)
              /\ menu' = MenuAfter(res.val, menu)
              /\ IF res.val = "Exit"
                   THEN /\ pc' = "prompt"
                        /\ UNCHANGED exit
                   ELSE /\ pc' = "prompt"
                        /\ UNCHANGED exit
    /\ command' = 0
    /\ UNCHANGED <<ctx, res, prompts, execs, active>>
    /\ UNCHANGED <<txVars, parseVars>>

\* variant of Resume: the GoBack arm breaks out of the loop
ResumeGoBackBreaks ==
    /\ pc = "await"
    /\ cpc = "done"
    /\ cpc' = "idle"
    /\ executing' = 0
    /\ IF ~res.ok
         THEN /\ Fail(res.err)
              /\ UNCHANGED <<outcomes, menu>>
         ELSE /\ outcomes' = Append(outcomes, res.val)
              /\ menu' = MenuAfter(res.val, menu)
              /\ IF res.val \in {"Exit", "GoBack"}
                   THEN /\ pc' = "done"
                        /\ exit' = [status |-> "success", error |-> NoErr]
                   ELSE /\ pc' = "prompt"
                        /\ UNCHANGED exit
    /\ command' = 0
    /\ UNCHANGED <<ctx, res, prompts, execs, active>>
    /\ UNCHANGED <<txVars, parseVars>>

\* variant of Resume: a failed command is reported and the loop continues
ResumeSwallowsError ==
    /\ pc = "await"
    /\ cpc = "done"
    /\ cpc' = "idle"
    /\ executing' = 0
    /\ IF ~res.ok
         THEN /\ pc' = "prompt"
              /\ UNCHANGED <<exit, outcomes, menu>>
         ELSE /\ outcomes' = Append(outcomes, res.val)
              /\ menu' = MenuAfter(res.val, menu)
              /\ IF res.val = "Exit"
                   THEN /\ pc' = "done"
                        /\ exit' = [status |-> "success", error |-> NoErr]
                   ELSE /\ pc' = "prompt"
                        /\ UNCHANGED exit
    /\ command' = 0
    /\ UNCHANGED <<ctx, res, prompts, execs, active>>
    /\ UNCHANGED <<txVars, parseVars>>

\* .await? followed by the match on res; the iteration's command is dropped
\* and the prompting collaborator moves to the level the outcome asks for
Resume ==
    /\ pc = "await"
    /\ cpc = "done"
    /\ cpc' = "idle"
    /\ executing' = 0
    /\ IF ~res.ok
         THEN /\ Fail(res.err)
              /\ UNCHANGED <<outcomes, menu>>
         ELSE /\ outcomes' = Append(outcomes, res.val)
              /\ menu' = MenuAfter(res.val, menu)
              /\ IF res.val = "Exit"
                   THEN /\ pc' = "done"
                        /\ exit' = [status |-> "success", error |-> NoErr]
                   ELSE /\ pc' = "prompt"
                        /\ UNCHANGED exit
    /\ command' = 0
    /\ UNCHANGED <<ctx, res, prompts, execs, active>>
    /\ UNCHANGED <<txVars, parseVars>>

(* ------------------ Command::process_command --------------------------- *)

\* the command completes with one outcome without submitting a transaction
CommandFinish ==
    /\ cpc = "running"
    /\ \E o \in CommandExec : res' = Ok(o)
    /\ cpc' = "done"
    /\ active' = active - 1
    /\ UNCHANGED <<pc, ctx, command, exit, prompts, execs, outcomes, menu, executing>>
    /\ UNCHANGED <<txVars, parseVars>>

\* a validator rejects the operator's input; the failure is propagated
CommandInvalid ==
    /\ cpc = "running"
    /\ res' = Err("none", AnyhowFrom(Error("ValidationError", "from_str")))
    /\ cpc' = "done"
    /\ active' = active - 1
    /\ UNCHANGED <<pc, ctx, command, exit, prompts, execs, outcomes, menu, executing>>
    /\ UNCHANGED <<txVars, parseVars>>

\* the command calls build_and_send_tx(ctx, instruction, signers)
CommandSend ==
    /\ cpc = "running"
    /\ cpc' = "in_tx"
    /\ \E i \in SUBSET Keys, s \in SUBSET Keys :
          /\ instruction' = i
          /\ signers' = s
    /\ tpc' = "fetch"
    /\ trace' = <<>>
    /\ calls' = calls + 1
    /\ UNCHANGED <<recent_blockhash, tx, ret, netReads, netWrites>>
    /\ UNCHANGED <<mainVars, active, executing, parseVars>>

\* build_and_send_tx has returned: its failure is propagated, its success
\* becomes an outcome; the callee's arguments and locals are dropped
CommandAfterTx ==
    /\ cpc = "in_tx"
    /\ tpc = "ret"
    /\ IF ret.ok
         THEN \E o \in CommandExec : res' = Ok(o)
         ELSE res' = Err("none", ret.err)
    /\ cpc' = "done"
    /\ active' = active - 1
    /\ tpc' = "idle"
    /\ instruction' = {}
    /\ signers' = {}
    /\ recent_blockhash' = NoHash
    /\ tx' = NoTx
    /\ ret' = Err(NoSig, NoErr)
    /\ trace' = <<>>
    /\ UNCHANGED <<calls, netReads, netWrites>>
    /\ UNCHANGED <<pc, ctx, command, exit, prompts, execs, outcomes, menu, executing>>
    /\ UNCHANGED parseVars

(* ------------- build_and_send_tx (src/misc/helpers.rs) ----------------- *)

\* one step of a call: its name, whether it succeeded, the block reference and
\* signatures it worked on, and the error it raised
Step(step, ok, hash, signed, err) ==
    [step |-> step, ok |-> ok, hash |-> hash, signed |-> signed, err |-> err]

\* Message::new(instruction, Some(ctx.pubkey()))
Message_new(instr, payer) == [payer |-> payer, required |-> {payer} \cup instr]

\* Transaction::new_unsigned(message)
Transaction_new_unsigned(message) ==
    [message |-> message, signatures |-> {}, recent_blockhash |-> NoHash]

\* variant of try_sign: try_partial_sign, which accepts missing signatures
try_partial_sign(t, keypairs, faulty, hash) ==
    IF ~(keypairs \subseteq t.message.required)
      THEN [ok |-> FALSE, tx |-> t, err |-> Error("SignerError", "KeypairPubkeyMismatch")]
      ELSE LET rehashed == [t EXCEPT !.recent_blockhash = hash, !.signatures = {}]
               signed == [rehashed EXCEPT !.signatures =
                              {[by |-> k, hash |-> hash] : k \in keypairs \ faulty}]
           IN  IF keypairs \cap faulty # {}
                 THEN [ok |-> FALSE, tx |-> signed, err |-> Error("SignerError", "try_sign_message")]
                 ELSE [ok |-> TRUE, tx |-> signed, err |-> NoErr]

\* tx.try_sign(&signers.to_vec(), recent_blockhash): every keypair must be
\* a required signer of the message, every keypair must produce its
\* signature, and afterwards no required signature may be missing
try_sign(t, keypairs, faulty, hash) ==
    IF ~(keypairs \subseteq t.message.required)
      THEN [ok |-> FALSE, tx |-> t, err |-> Error("SignerError", "KeypairPubkeyMismatch")]
      ELSE LET rehashed == [t EXCEPT !.recent_blockhash = hash, !.signatures = {}]
               signed == [rehashed EXCEPT !.signatures =
                              {[by |-> k, hash |-> hash] : k \in keypairs \ faulty}]
           IN  IF keypairs \cap faulty # {}
                 THEN [ok |-> FALSE, tx |-> signed, err |-> Error("SignerError", "try_sign_message")]
                 ELSE IF {s.by : s \in signed.signatures} # t.message.required
                        THEN [ok |-> FALSE, tx |-> signed, err |-> Error("SignerError", "NotEnoughSigners")]
                        ELSE [ok |-> TRUE, tx |-> signed, err |-> NoErr]

\* variant of Fetch: a failed fetch falls back to the default block reference
FetchOrDefault ==
    /\ tpc = "fetch"
    /\ netReads' = netReads + 1
    /\ \/ \E h \in Hashes :
             /\ recent_blockhash' = h
             /\ trace' = Append(trace, Step("fetch", TRUE, h, {}, NoErr))
       \/ /\ recent_blockhash' = NoHash
          /\ trace' = Append(trace, Step("fetch", FALSE, NoHash, {},
                                         Error("ClientError", "get_latest_blockhash")))
    /\ tpc' = "sign"
    /\ UNCHANGED <<instruction, signers, tx, ret, calls, netWrites>>
    /\ UNCHANGED <<mainVars, cmdVars, parseVars>>

\* let recent_blockhash = ctx.rpc().get_latest_blockhash().await?;
Fetch ==
    /\ tpc = "fetch"
    /\ netReads' = netReads + 1
    /\ \/ \E h \in Hashes :
             /\ recent_blockhash' = h
             /\ trace' = Append(trace, Step("fetch", TRUE, h, {}, NoErr))
             /\ tpc' = "sign"
             /\ UNCHANGED ret
       \/ LET e == Error("ClientError", "get_latest_blockhash")
          IN  /\ ret' = Err(NoSig, AnyhowFrom(e))
              /\ trace' = Append(trace, Step("fetch", FALSE, NoHash, {}, e))
              /\ tpc' = "ret"
              /\ UNCHANGED recent_blockhash
    /\ UNCHANGED <<instruction, signers, tx, calls, netWrites>>
    /\ UNCHANGED <<mainVars, cmdVars, parseVars>>

\* variant of BuildAndSign: the result of try_sign is discarded
BuildAndSignUnchecked ==
    /\ tpc = "sign"
    /\ \E faulty \in SUBSET signers :
          LET message == Message_new(instruction, ctx.pubkey)
              unsigned == Transaction_new_unsigned(message)
              r == try_sign(unsigned, signers, faulty, recent_blockhash)
              built == Append(trace, Step("build", TRUE, NoHash, {}, NoErr))
              sigs == {s.by : s \in r.tx.signatures}
          IN  /\ tx' = r.tx
              /\ trace' = Append(built, Step("sign", r.ok, r.tx.recent_blockhash, sigs, r.err))
    /\ tpc' = "send"
    /\ UNCHANGED <<instruction, signers, recent_blockhash, ret, calls, netReads, netWrites>>
    /\ UNCHANGED <<mainVars, cmdVars, parseVars>>

\* let message = Message::new(..); let mut tx = Transaction::new_unsigned(message);
\* tx.try_sign(&signers.to_vec(), recent_blockhash)?;
BuildAndSign ==
    /\ tpc = "sign"
    /\ \E faulty \in SUBSET signers :
          LET message == Message_new(instruction, ctx.pubkey)
              unsigned == Transaction_new_unsigned(message)
              r == try_sign(unsigned, signers, faulty, recent_blockhash)
              built == Append(trace, Step("build", TRUE, NoHash, {}, NoErr))
              sigs == {s.by : s \in r.tx.signatures}
          IN  /\ tx' = r.tx
              /\ trace' = Append(built, Step("sign", r.ok, r.tx.recent_blockhash, sigs, r.err))
              /\ IF r.ok
                   THEN /\ tpc' = "send"
                        /\ UNCHANGED ret
                   ELSE /\ tpc' = "ret"
                        /\ ret' = Err(NoSig, AnyhowFrom(r.err))
    /\ UNCHANGED <<instruction, signers, recent_blockhash, calls, netReads, netWrites>>
    /\ UNCHANGED <<mainVars, cmdVars, parseVars>>

\* variant of Send: a failed submission is attempted again
SendRetries ==
    /\ tpc = "send"
    /\ netWrites' = netWrites + 1
    /\ LET sigs == {s.by : s \in tx.signatures}
       IN  \/ /\ ret' = Ok([by |-> tx.message.payer, hash |-> tx.recent_blockhash])
              /\ trace' = Append(trace, Step("submit", TRUE, tx.recent_blockhash, sigs, NoErr))
              /\ tpc' = "ret"
           \/ LET e == Error("ClientError", "send_and_confirm_transaction")
              IN  /\ Len(trace) < 5
                  /\ trace' = Append(trace, Step("submit", FALSE, tx.recent_blockhash, sigs, e))
                  /\ UNCHANGED <<ret, tpc>>
    /\ UNCHANGED <<instruction, signers, recent_blockhash, tx, calls, netReads>>
    /\ UNCHANGED <<mainVars, cmdVars, parseVars>>

\* let signature = ctx.rpc().send_and_confirm_transaction(&tx).await?; Ok(signature)
Send ==
    /\ tpc = "send"
    /\ netWrites' = netWrites + 1
    /\ LET sigs == {s.by : s \in tx.signatures}
       IN  \/ /\ ret' = Ok([by |-> tx.message.payer, hash |-> tx.recent_blockhash])
              /\ trace' = Append(trace, Step("submit", TRUE, tx.recent_blockhash, sigs, NoErr))
           \/ LET e == Error("ClientError", "send_and_confirm_transaction")
              IN  /\ ret' = Err(NoSig, AnyhowFrom(e))
                  /\ trace' = Append(trace, Step("submit", FALSE, tx.recent_blockhash, sigs, e))
    /\ tpc' = "ret"
    /\ UNCHANGED <<instruction, signers, recent_blockhash, tx, calls, netReads>>
    /\ UNCHANGED <<mainVars, cmdVars, parseVars>>

(* ------------------- validators (src/misc/helpers.rs) ------------------ *)

Whitespace == {" "}
Digits == {"0", "1", "2", "5", "6"}
Chars == Whitespace \cup Digits \cup {"+", "-", "a"}
U8Max == 255

DigitVal(c) ==
    CASE c = "0" -> 0 [] c = "1" -> 1 [] c = "2" -> 2 [] c = "3" -> 3 [] c = "4" -> 4
      [] c = "5" -> 5 [] c = "6" -> 6 [] c = "7" -> 7 [] c = "8" -> 8 [] c = "9" -> 9

\* str::trim: strip leading and trailing whitespace
RECURSIVE trim_start(_)
trim_start(s) ==
    IF s # <<>> /\ Head(s) \in Whitespace THEN trim_start(Tail(s)) ELSE s

RECURSIVE trim_end(_)
trim_end(s) ==
    IF s # <<>> /\ s[Len(s)] \in Whitespace THEN trim_end(SubSeq(s, 1, Len(s) - 1)) ELSE s

trim(s) == trim_end(trim_start(s))

\* the digit loop of <u8 as FromStr>: checked_mul(10) then checked_add(digit)
RECURSIVE u8_digits(_, _)
u8_digits(s, acc) ==
    IF s = <<>> THEN [ok |-> TRUE, val |-> acc]
    ELSE IF Head(s) \notin Digits THEN [ok |-> FALSE, val |-> 0]
    ELSE IF acc * 10 > U8Max THEN [ok |-> FALSE, val |-> 0]
    ELSE IF acc * 10 + DigitVal(Head(s)) > U8Max THEN [ok |-> FALSE, val |-> 0]
    ELSE u8_digits(Tail(s), acc * 10 + DigitVal(Head(s)))

\* <u8 as FromStr>::from_str: an optional leading '+', then at least one digit
u8_from_str(s) ==
    IF s = <<>> THEN [ok |-> FALSE, val |-> 0]
    ELSE IF Len(s) = 1 /\ Head(s) \in {"+", "-"} THEN [ok |-> FALSE, val |-> 0]
    ELSE IF Head(s) = "+" THEN u8_digits(Tail(s), 0)
    ELSE u8_digits(s, 0)

(* ------------- unsigned integers wider than 32 bits -------------------- *)
\* a natural number as its digits in base 2^15, least significant first,
\* without leading zeros: u64 values and the exact products and quotients
\* that f64 arithmetic rounds
LimbBits == 15
Base == 32768

BigNorm(b) ==
    LET set == {i \in DOMAIN b : b[i] # 0}
    IN  IF set = {} THEN <<>>
        ELSE SubSeq(b, 1, CHOOSE i \in set : \A j \in set : j <= i)

RECURSIVE BigOfInt(_)
BigOfInt(n) == IF n = 0 THEN <<>> ELSE <<n % Base>> \o BigOfInt(n \div Base)

\* the value of a number below 2^30
BigToInt(b) ==
    IF b = <<>> THEN 0 ELSE IF Len(b) = 1 THEN b[1] ELSE b[1] + Base * b[2]

\* b * c + carry from limb i upwards, for c and carry of at most one limb
RECURSIVE BigMulLimbFrom(_, _, _, _)
BigMulLimbFrom(b, c, i, carry) ==
    IF i > Len(b) THEN BigOfInt(carry)
    ELSE LET v == b[i] * c + carry
         IN  <<v % Base>> \o BigMulLimbFrom(b, c, i + 1, v \div Base)

BigMulLimb(b, c, carry) == BigNorm(BigMulLimbFrom(b, c, 1, carry))

RECURSIVE BigAddFrom(_, _, _, _)
BigAddFrom(a, b, i, carry) ==
    IF i > Len(a) /\ i > Len(b) THEN BigOfInt(carry)
    ELSE LET v == (IF i <= Len(a) THEN a[i] ELSE 0) + (IF i <= Len(b) THEN b[i] ELSE 0) + carry
         IN  <<v % Base>> \o BigAddFrom(a, b, i + 1, v \div Base)

BigAdd(a, b) == BigAddFrom(a, b, 1, 0)

RECURSIVE BigMul(_, _)
BigMul(a, b) ==
    IF a = <<>> \/ b = <<>> THEN <<>>
    ELSE BigAdd(BigMulLimb(a, Head(b), 0), BigNorm(<<0>> \o BigMul(a, Tail(b))))

\* long division by a divisor c of at most 2^30, one bit at a time: bit j
\* of a limb counted from its top, the remainder and the quotient bit after
\* one more bit
LimbBit(limb, j) == (limb \div (2 ^ (LimbBits - j))) % 2
RemStep(r, bit, c) == (2 * r + bit) % c
QuotBit(r, bit, c) == IF 2 * r + bit >= c THEN 1 ELSE 0

\* the remainder after the top j bits of a limb have been brought down to
\* a remainder rem
RECURSIVE RemLimb(_, _, _, _)
RemLimb(rem, limb, c, j) ==
    IF rem >= c THEN RemLimb(rem % c, limb, c, j)
    ELSE IF j = 0 THEN rem
    ELSE RemStep(RemLimb(rem, limb, c, j - 1), LimbBit(limb, j), c)

\* the quotient bits that the top j bits of a limb give
RECURSIVE QuotLimb(_, _, _, _)
QuotLimb(rem, limb, c, j) ==
    IF rem >= c THEN QuotLimb(rem % c, limb, c, j)
    ELSE IF j = 0 THEN 0
    ELSE 2 * QuotLimb(rem, limb, c, j - 1)
           + QuotBit(RemLimb(rem, limb, c, j - 1), LimbBit(limb, j), c)

\* the remainder of the limbs i and above of b
RECURSIVE BigRemFrom(_, _, _)
BigRemFrom(b, c, i) ==
    IF i > Len(b) THEN 0
    ELSE RemLimb(BigRemFrom(b, c, i + 1), b[i], c, LimbBits)

\* floor(b / c) and b mod c
BigDiv(b, c) ==
    BigNorm([i \in 1..Len(b) |-> QuotLimb(BigRemFrom(b, c, i + 1), b[i], c, LimbBits)])

BigMod(b, c) == BigRemFrom(b, c, 1)

\* b * 2^k
BigShl(b, k) ==
    IF b = <<>> THEN <<>>
    ELSE [i \in 1..(k \div LimbBits) |-> 0] \o BigMulLimb(b, 2 ^ (k % LimbBits), 0)

\* floor(b / 2^k)
BigShr(b, k) ==
    IF k \div LimbBits >= Len(b) THEN <<>>
    ELSE BigDiv(SubSeq(b, (k \div LimbBits) + 1, Len(b)), 2 ^ (k % LimbBits))

\* bit i of b, bit 0 being the least significant
BigBit(b, i) ==
    IF i < 0 \/ i \div LimbBits >= Len(b) THEN 0
    ELSE (b[(i \div LimbBits) + 1] \div (2 ^ (i % LimbBits))) % 2

\* number of bits of b
BigBitLen(b) ==
    IF b = <<>> THEN 0
    ELSE LimbBits * (Len(b) - 1)
           + (CHOOSE k \in 1..LimbBits : 2 ^ (k - 1) <= b[Len(b)] /\ b[Len(b)] < 2 ^ k)

\* number of zero bits below the lowest set bit of a non-zero b
BigTrailingZeros(b) ==
    CHOOSE i \in 0..(LimbBits * Len(b)) :
        BigBit(b, i) = 1 /\ \A j \in 0..(i - 1) : BigBit(b, j) = 0

\* whether any of the k lowest bits of b is set
BigLowBits(b, k) == k > 0 /\ BigShl(BigShr(b, k), k) # b

\* -1, 0 or 1 as a is below, equal to or above b
BigCmp(a, b) ==
    IF Len(a) # Len(b) THEN (IF Len(a) < Len(b) THEN -1 ELSE 1)
    ELSE LET diff == {i \in DOMAIN a : a[i] # b[i]}
         IN  IF diff = {} THEN 0
             ELSE IF a[CHOOSE i \in diff : \A j \in diff : j <= i]
                       < b[CHOOSE i \in diff : \A j \in diff : j <= i] THEN -1 ELSE 1

\* b * 10^n, four decimal places at a time
RECURSIVE BigMulPow10(_, _)
BigMulPow10(b, n) ==
    IF b = <<>> \/ n = 0 THEN b
    ELSE IF n >= 4 THEN BigMulLimb(BigMulPow10(b, n - 4), 10000, 0)
    ELSE BigMulLimb(BigMulPow10(b, n - 1), 10, 0)

\* floor(b / 10^n), nine decimal places at a time
RECURSIVE BigDivPow10(_, _)
BigDivPow10(b, n) ==
    IF b = <<>> \/ n = 0 THEN b
    ELSE IF n >= 9 THEN BigDiv(BigDivPow10(b, n - 9), 1000000000)
    ELSE BigDiv(BigDivPow10(b, n - 1), 10)

\* whether b is a multiple of 10^n
BigMultipleOfPow10(b, n) == BigMulPow10(BigDivPow10(b, n), n) = b

\* the number written by a sequence of decimal digits
RECURSIVE BigOfDigits(_)
BigOfDigits(s) ==
    IF s = <<>> THEN <<>>
    ELSE BigMulLimb(BigOfDigits(SubSeq(s, 1, Len(s) - 1)), 10, DigitVal(s[Len(s)]))

(* ------------------------------ f64 ------------------------------------ *)
\* a finite f64 is m * 2^e with m odd and below 2^53
MantissaBits == 53
MaxBinaryExponent == 1024
MinBinaryExponent == 0 - 1074
MaxDecimalExponent == 308
MinDecimalExponent == 0 - 324
U64Bits == 64
LAMPORTS_PER_SOL == 1000000000

\* m * 2^e for an odd m; a value of 2^1024 or more is an infinity
F64Pack(m, e, neg) ==
    IF BigBitLen(m) + e > MaxBinaryExponent THEN F64Inf(neg)
    ELSE [cls |-> "finite", neg |-> neg, m |-> m, e |-> e]

\* m * 2^e with the low zero bits of m moved into the exponent
F64Canon(m, e, neg) ==
    IF m = <<>> THEN F64Zero(neg)
    ELSE F64Pack(BigShr(m, BigTrailingZeros(m)), e + BigTrailingZeros(m), neg)

\* how many low bits of a len-bit integer scaled by 2^e do not fit: those
\* beyond 53 bits, and those below 2^-1074
DropBits(len, e) ==
    LET over == IF len > MantissaBits THEN len - MantissaBits ELSE 0
        under == IF e < MinBinaryExponent THEN MinBinaryExponent - e ELSE 0
    IN  IF over > under THEN over ELSE under

\* ties to even: up if the first dropped bit is set and either a lower one
\* is or the kept part is odd
F64RoundUp(kept, guard, low) ==
    IF guard /\ (low \/ BigBit(kept, 0) = 1) THEN BigAdd(kept, <<1>>) ELSE kept

F64RoundAt(n, e, sticky, neg, d) ==
    F64Canon(F64RoundUp(BigShr(n, d), BigBit(n, d - 1) = 1, sticky \/ BigLowBits(n, d - 1)),
             e + d, neg)

\* the f64 nearest to n * 2^e (plus, if sticky, a fraction of the last bit
\* of n)
F64Round(n, e, sticky, neg) == F64RoundAt(n, e, sticky, neg, DropBits(BigBitLen(n), e))

\* `x as f64` for an unsigned integer x
F64FromU64(x) == F64Round(x, 0, FALSE, FALSE)

\* a * b
F64Mul(a, b) ==
    IF a.cls = "nan" \/ b.cls = "nan" THEN F64NaN
    ELSE IF a.cls = "inf" \/ b.cls = "inf"
      THEN (IF a.cls = "zero" \/ b.cls = "zero" THEN F64NaN ELSE F64Inf(a.neg # b.neg))
    ELSE IF a.cls = "zero" \/ b.cls = "zero" THEN F64Zero(a.neg # b.neg)
    ELSE F64Round(BigMul(a.m, b.m), a.e + b.e, FALSE, a.neg # b.neg)

\* the quotient of the mantissas with k more bits, rounded
F64DivAt(a, b, k) ==
    F64Round(BigDiv(BigShl(a.m, k), BigToInt(b.m)), a.e - b.e - k,
             BigMod(BigShl(a.m, k), BigToInt(b.m)) # 0, a.neg # b.neg)

\* a / b, for b a finite non-zero value whose mantissa is below 2^30
F64Div(a, b) ==
    IF a.cls = "nan" THEN F64NaN
    ELSE IF a.cls = "inf" THEN F64Inf(a.neg # b.neg)
    ELSE IF a.cls = "zero" THEN F64Zero(a.neg # b.neg)
    ELSE F64DivAt(a, b, MantissaBits + 2 + BigBitLen(b.m))

\* a > b for a and b that are not negative
F64Gt(a, b) ==
    IF a.cls = "nan" \/ b.cls = "nan" THEN FALSE
    ELSE IF a.cls = "inf" THEN b.cls # "inf"
    ELSE IF b.cls = "inf" THEN FALSE
    ELSE IF a.cls = "zero" THEN FALSE
    ELSE IF b.cls = "zero" THEN TRUE
    ELSE IF BigBitLen(a.m) + a.e # BigBitLen(b.m) + b.e
      THEN BigBitLen(a.m) + a.e > BigBitLen(b.m) + b.e
    ELSE LET lo == IF a.e < b.e THEN a.e ELSE b.e
         IN  BigCmp(BigShl(a.m, a.e - lo), BigShl(b.m, b.e - lo)) = 1

\* u64::MAX, 2^64 - 1
U64Max == <<Base - 1, Base - 1, Base - 1, Base - 1, 15>>

\* `x as u64`: NaN and negative values give 0, values of 2^64 or more give
\* u64::MAX, anything else loses its fraction
F64ToU64(x) ==
    IF x.cls \in {"nan", "zero"} \/ x.neg THEN <<>>
    ELSE IF x.cls = "inf" THEN U64Max
    ELSE IF BigBitLen(x.m) + x.e > U64Bits THEN U64Max
    ELSE IF x.e >= 0 THEN BigShl(x.m, x.e)
    ELSE BigShr(x.m, 0 - x.e)

\* bits added to the numerator before a division by 10^n, so that the
\* quotient has more than 53 bits
ScaleBits(n) == 4 * n + MantissaBits + 2

\* the f64 nearest to num / (10^n * 2^ScaleBits(n))
F64OfQuotient(num, n, neg) ==
    F64Round(BigDivPow10(num, n), 0 - ScaleBits(n), ~BigMultipleOfPow10(num, n), neg)

\* the f64 nearest to n * 10^exp10, n being written with len digits; 10^309
\* is beyond the largest f64 and 10^-325 is below half the smallest
F64OfScaled(n, len, exp10, neg) ==
    IF n = <<>> THEN F64Zero(neg)
    ELSE IF exp10 > MaxDecimalExponent THEN F64Inf(neg)
    ELSE IF len + exp10 < MinDecimalExponent THEN F64Zero(neg)
    ELSE IF exp10 >= 0 THEN F64Round(BigMulPow10(n, exp10), 0, FALSE, neg)
    ELSE F64OfQuotient(BigShl(n, ScaleBits(0 - exp10)), 0 - exp10, neg)

\* the f64 nearest to digits * 10^exp10
F64OfDecimal(digits, exp10, neg) == F64OfScaled(BigOfDigits(digits), Len(digits), exp10, neg)

(* ------------------- <f64 as FromStr> (core::num::dec2flt) ------------- *)
DecimalDigits == {"0", "1", "2", "3", "4", "5", "6", "7", "8", "9"}

\* ASCII lower case of the letters that "inf", "infinity", "nan" and the
\* exponent mark are written with
Lower(c) ==
    CASE c = "I" -> "i" [] c = "N" -> "n" [] c = "F" -> "f" [] c = "T" -> "t"
      [] c = "Y" -> "y" [] c = "A" -> "a" [] c = "E" -> "e" [] OTHER -> c

LowerAll(s) == [i \in 1..Len(s) |-> Lower(s[i])]

\* length of the longest prefix of s made of decimal digits
DigitRun(s) ==
    CHOOSE k \in 0..Len(s) :
        /\ \A i \in 1..k : s[i] \in DecimalDigits
        /\ k < Len(s) => s[k + 1] \notin DecimalDigits

\* the exponent's digits, accumulated while below 0x10000
ExpStep(acc, d) == IF acc >= 65536 THEN acc ELSE acc * 10 + d

RECURSIVE ExpValue(_)
ExpValue(s) ==
    IF s = <<>> THEN 0
    ELSE ExpStep(ExpValue(SubSeq(s, 1, Len(s) - 1)), DigitVal(s[Len(s)]))

\* what a float literal can be
InvalidLiteral == [kind |-> "invalid", neg |-> FALSE, digits |-> <<>>, exp10 |-> 0]
DecimalLiteral(digits, exp10, neg) ==
    [kind |-> "decimal", neg |-> neg, digits |-> digits, exp10 |-> exp10]
SpecialLiteral(kind, neg) == [kind |-> kind, neg |-> neg, digits |-> <<>>, exp10 |-> 0]

\* the digits of the exponent: at least one, and nothing after them
ExponentDigits(digits, nf, e, eneg, neg) ==
    IF e = <<>> \/ DigitRun(e) # Len(e) THEN InvalidLiteral
    ELSE DecimalLiteral(digits, (IF eneg THEN 0 - ExpValue(e) ELSE ExpValue(e)) - nf, neg)

\* what follows the digits: nothing, or e | E with an optional sign
Exponent(digits, nf, rest, neg) ==
    IF rest = <<>> THEN DecimalLiteral(digits, 0 - nf, neg)
    ELSE IF Lower(Head(rest)) # "e" THEN InvalidLiteral
    ELSE IF Len(rest) > 1 /\ rest[2] \in {"+", "-"}
      THEN ExponentDigits(digits, nf, SubSeq(rest, 3, Len(rest)), rest[2] = "-", neg)
    ELSE ExponentDigits(digits, nf, Tail(rest), FALSE, neg)

\* ni integer digits, then nf fraction digits from position from + 1: at
\* least one digit in all
Mantissa(body, ni, from, nf, neg) ==
    IF ni + nf = 0 THEN InvalidLiteral
    ELSE Exponent(SubSeq(body, 1, ni) \o SubSeq(body, from + 1, from + nf), nf,
                  SubSeq(body, from + nf + 1, Len(body)), neg)

\* the integer digits and, after a point, the fraction digits
Fraction(body, ni, neg) ==
    IF ni < Len(body) /\ body[ni + 1] = "."
      THEN Mantissa(body, ni, ni + 1, DigitRun(SubSeq(body, ni + 2, Len(body))), neg)
    ELSE Mantissa(body, ni, ni, 0, neg)

\* a literal without its sign: inf | infinity | nan in any letter case, or
\* digits [. digits] [exponent]
Unsigned(body, neg) ==
    IF LowerAll(body) = <<"i", "n", "f">>
         \/ LowerAll(body) = <<"i", "n", "f", "i", "n", "i", "t", "y">>
      THEN SpecialLiteral("inf", neg)
    ELSE IF LowerAll(body) = <<"n", "a", "n">> THEN SpecialLiteral("nan", neg)
    ELSE Fraction(body, DigitRun(body), neg)

\* the parts of a float literal; the whole text must be consumed
f64_literal(s) ==
    IF s # <<>> /\ Head(s) \in {"+", "-"} THEN Unsigned(Tail(s), Head(s) = "-")
    ELSE Unsigned(s, FALSE)

\* the f64 nearest to a literal's value
F64OfLiteral(l) ==
    CASE l.kind = "invalid" -> [ok |-> FALSE, val |-> 0]
      [] l.kind = "inf" -> [ok |-> TRUE, val |-> F64Inf(l.neg)]
      [] l.kind = "nan" -> [ok |-> TRUE, val |-> F64NaN]
      [] l.kind = "decimal" -> [ok |-> TRUE, val |-> F64OfDecimal(l.digits, l.exp10, l.neg)]

\* <f64 as FromStr>::from_str
f64_from_str(s) == F64OfLiteral(f64_literal(s))

\* trimmed.parse::<T>(): the FromStr implementation of the type asked for
parse(T, s) ==
    CASE T = "u8" -> u8_from_str(s)
      [] T = "f64" -> f64_from_str(s)

\* .map(Some).map_err(..) on the result of parse
map_some(r) ==
    IF r.ok THEN [ok |-> TRUE, some |-> TRUE, val |-> r.val]
    ELSE [ok |-> FALSE, some |-> FALSE, val |-> 0]

\* trim_and_parse::<T>: Ok(None) on blank text, Ok(Some(v)) or Err otherwise
trim_and_parse(T, s) ==
    IF trim(s) = <<>> THEN [ok |-> TRUE, some |-> FALSE, val |-> 0]
    ELSE map_some(parse(T, trim(s)))

\* Commission::from_str on what trim_and_parse returned, with the upper
\* limit not checked
Commission_of_parsed_unchecked(r) ==
    IF ~r.ok THEN [ok |-> FALSE, val |-> 0]
    ELSE IF ~r.some THEN [ok |-> TRUE, val |-> 0]
    ELSE [ok |-> TRUE, val |-> r.val]

\* Commission::from_str on what trim_and_parse returned
Commission_of_parsed(r) ==
    IF ~r.ok THEN [ok |-> FALSE, val |-> 0]
    ELSE IF ~r.some THEN [ok |-> TRUE, val |-> 0]
    ELSE IF r.val > 100 THEN [ok |-> FALSE, val |-> 0]
    ELSE [ok |-> TRUE, val |-> r.val]

\* variant of Commission::from_str: the upper limit is not checked
Commission_from_str_unchecked(s) == Commission_of_parsed_unchecked(trim_and_parse("u8", s))

\* <Commission as FromStr>::from_str
Commission_from_str(s) == Commission_of_parsed(trim_and_parse("u8", s))

\* the operator types one more character of the commission text
TypeChar ==
    /\ ~parsed.done
    /\ Len(input) < MaxLen
    /\ \E c \in Chars : input' = Append(input, c)
    /\ UNCHANGED <<parsed, amount, conv>>
    /\ UNCHANGED <<mainVars, cmdVars, txVars>>

\* the text is handed to Commission::from_str
ParseCommission ==
    /\ ~parsed.done
    /\ parsed' = [done |-> TRUE] @@ Commission_from_str(input)
    /\ UNCHANGED <<input, amount, conv>>
    /\ UNCHANGED <<mainVars, cmdVars, txVars>>

NextCommission ==
    \/ TypeChar
    \/ ParseCommission

SpecCommission == Init /\ [][NextCommission]_vars

(* ------------- SolAmount and the lamport conversions ------------------- *)
\* `LAMPORTS_PER_SOL as f64` and `u64::MAX as f64`
LamportsPerSolF64 == F64FromU64(BigOfInt(LAMPORTS_PER_SOL))
U64MaxF64 == F64FromU64(U64Max)

is_finite(x) == x.cls \in {"zero", "finite"}

\* x <= 0.0: false for a NaN
F64LeZero(x) == x.cls = "zero" \/ (x.cls \in {"finite", "inf"} /\ x.neg)

\* x < 0.0: false for a NaN
F64LtZero(x) == x.cls \in {"finite", "inf"} /\ x.neg

\* a positive product with half a unit added
F64PlusHalf(p) ==
    IF p.cls # "finite" \/ p.neg \/ p.e >= 0 THEN p
    ELSE F64Canon(BigAdd(p.m, BigShl(<<1>>, (0 - p.e) - 1)), p.e, FALSE)

\* variant of sol_to_lamports: the product is rounded to the nearest integer
sol_to_lamports_rounded(sol) == F64ToU64(F64PlusHalf(F64Mul(sol, LamportsPerSolF64)))

\* sol_to_lamports: (sol * LAMPORTS_PER_SOL as f64) as u64
sol_to_lamports(sol) == F64ToU64(F64Mul(sol, LamportsPerSolF64))

\* variant of lamports_to_sol: multiplies by the reciprocal of the constant
lamports_to_sol_reciprocal(lamports) ==
    F64Mul(F64FromU64(lamports), F64Div(F64FromU64(<<1>>), LamportsPerSolF64))

\* lamports_to_sol: lamports as f64 / LAMPORTS_PER_SOL as f64
lamports_to_sol(lamports) == F64Div(F64FromU64(lamports), LamportsPerSolF64)

AmountErr(e) == [done |-> TRUE, ok |-> FALSE, err |-> e, sol |-> F64Zero(FALSE)]

\* the checks of SolAmount::from_str on a number: the sign check lets zero
\* pass
SolAmount_check_nonnegative(sol) ==
    IF F64LtZero(sol) \/ ~is_finite(sol) THEN AmountErr("not_positive_finite")
    ELSE IF F64Gt(F64Mul(sol, LamportsPerSolF64), U64MaxF64) THEN AmountErr("too_large")
    ELSE [done |-> TRUE, ok |-> TRUE, err |-> "none", sol |-> sol]

\* the checks of SolAmount::from_str on the number parsed
SolAmount_check(sol) ==
    IF F64LeZero(sol) \/ ~is_finite(sol) THEN AmountErr("not_positive_finite")
    ELSE IF F64Gt(F64Mul(sol, LamportsPerSolF64), U64MaxF64) THEN AmountErr("too_large")
    ELSE [done |-> TRUE, ok |-> TRUE, err |-> "none", sol |-> sol]

\* SolAmount::from_str on what trim_and_parse returned
SolAmount_of_parsed(r) ==
    IF ~r.ok THEN AmountErr("invalid")
    ELSE IF ~r.some THEN AmountErr("empty")
    ELSE SolAmount_check(r.val)

\* <SolAmount as FromStr>::from_str
SolAmount_from_str(s) == SolAmount_of_parsed(trim_and_parse("f64", s))

\* SolAmount::to_lamports
to_lamports(a) == sol_to_lamports(a.sol)

\* the characters the operator types into an amount prompt, and whole
\* texts at the edges of the accepted range
AmountChars == Whitespace \cup {"0", "1", "5", "+", "-", ".", "e", "a"}

AmountSeeds ==
    { <<"1", "8", "4", "4", "6", "7", "4", "4", "0", "7", "3", ".", "7", "0", "9", "5", "5", "1", "6", "1", "5">>,
      <<"1", "8", "4", "4", "6", "7", "4", "4", "0", "7", "3", ".", "7", "0", "9", "5", "5", "1", "6", "1", "6">>,
      <<"1", "8", "4", "4", "6", "7", "4", "4", "0", "7", "3", ".", "7", "1">>,
      <<"1", "8", "4", "4", "6", "7", "4", "4", "0", "7", "4">>,
      <<"1", "0", "0", "0", "0", "0", "0", "0", "0", "0", "0", "0">>,
      <<"0", ".", "3">>,
      <<"8", ".", "2">>,
      <<"5", "e", "-", "1", "0">>,
      <<"0", ".", "0", "0", "0", "0", "0", "0", "0", "0", "1">>,
      <<" ", "1", ".", "5", " ">>,
      <<"i", "n", "f">>,
      <<"-", "i", "n", "f">>,
      <<"I", "n", "f", "i", "n", "i", "t", "y">>,
      <<"N", "a", "N">>,
      <<"1", "e", "4", "0", "0">>,
      <<"1", "e", "-", "5", "0", "0">>,
      <<"-", "0", ".", "0">>,
      <<"1", ",", "5">> }

\* a u64 written in groups of nine decimal digits, most significant first
RECURSIVE U64OfGroups(_)
U64OfGroups(g) ==
    IF g = <<>> THEN <<>>
    ELSE BigAdd(BigMul(U64OfGroups(SubSeq(g, 1, Len(g) - 1)), BigOfInt(LAMPORTS_PER_SOL)),
                BigOfInt(g[Len(g)]))

\* lamport quantities: whole SOL with a remainder, and values at the edges
\* of what f64 represents exactly
LamportRemainders == {0, 1, 999999999}

LamportSeeds ==
    { U64OfGroups(g) :
        g \in { <<18, 446744073, 709551615>>, <<18, 446744073, 0>>,
                <<4, 611686018, 0>>, <<4, 611686019, 0>>, <<8, 589934593, 0>>,
                <<9, 7199255, 0>>, <<9007199, 254740992>>, <<9007199, 254740993>> } }

LamportInputs ==
    { BigAdd(BigMul(BigOfInt(k), BigOfInt(LAMPORTS_PER_SOL)), BigOfInt(r)) :
        k \in 0..MaxSol, r \in LamportRemainders } \cup LamportSeeds

\* the operator types one more character of the amount text
TypeAmountChar ==
    /\ ~amount.done
    /\ conv.op = "none"
    /\ Len(input) < MaxAmountLen
    /\ \E c \in AmountChars : input' = Append(input, c)
    /\ UNCHANGED <<parsed, amount, conv>>
    /\ UNCHANGED <<mainVars, cmdVars, txVars>>

\* the operator enters a whole text at once
PasteAmount ==
    /\ ~amount.done
    /\ conv.op = "none"
    /\ input = <<>>
    /\ \E t \in AmountSeeds : input' = t
    /\ UNCHANGED <<parsed, amount, conv>>
    /\ UNCHANGED <<mainVars, cmdVars, txVars>>

\* the text is handed to SolAmount::from_str
ParseAmount ==
    /\ ~amount.done
    /\ conv.op = "none"
    /\ amount' = SolAmount_from_str(input)
    /\ UNCHANGED <<input, parsed, conv>>
    /\ UNCHANGED <<mainVars, cmdVars, txVars>>

\* SolAmount::to_lamports on the amount constructed
ToLamports ==
    /\ amount.done
    /\ amount.ok
    /\ conv.op = "none"
    /\ conv' = [op |-> "to_lamports", lamports |-> <<>>, sol |-> amount.sol,
                back |-> to_lamports(amount)]
    /\ UNCHANGED <<input, parsed, amount>>
    /\ UNCHANGED <<mainVars, cmdVars, txVars>>

\* sol_to_lamports on the f64 that the text parses to
ConvertSol ==
    /\ ~amount.done
    /\ conv.op = "none"
    /\ f64_literal(trim(input)).kind # "invalid"
    /\ conv' = [op |-> "sol_to_lamports", lamports |-> <<>>,
                sol |-> f64_from_str(trim(input)).val,
                back |-> sol_to_lamports(f64_from_str(trim(input)).val)]
    /\ UNCHANGED <<input, parsed, amount>>
    /\ UNCHANGED <<mainVars, cmdVars, txVars>>

\* lamports_to_sol on a lamport quantity, and sol_to_lamports on its result
ConvertLamports ==
    /\ ~amount.done
    /\ conv.op = "none"
    /\ input = <<>>
    /\ \E l \in LamportInputs :
          conv' = [op |-> "lamports_to_sol", lamports |-> l, sol |-> lamports_to_sol(l),
                   back |-> sol_to_lamports(lamports_to_sol(l))]
    /\ UNCHANGED <<input, parsed, amount>>
    /\ UNCHANGED <<mainVars, cmdVars, txVars>>

NextAmount ==
    \/ TypeAmountChar
    \/ PasteAmount
    \/ ParseAmount
    \/ ToLamports
    \/ ConvertSol
    \/ ConvertLamports

SpecAmount == Init /\ [][NextAmount]_vars

Next ==
    \/ LoadConfig
    \/ FromConfig
    \/ Prompt
    \/ Process
    \/ Resume
    \/ CommandFinish
    \/ CommandInvalid
    \/ CommandSend
    \/ CommandAfterTx
    \/ Fetch
    \/ BuildAndSign
    \/ Send

Spec == Init /\ [][Next]_vars

TypeOK ==
    /\ pc \in {"load_config", "from_config", "prompt", "process", "await", "done"}
    /\ cpc \in {"idle", "running", "in_tx", "done"}
    /\ tpc \in {"idle", "fetch", "sign", "send", "ret"}
    /\ prompts \in 0..MaxPrompts
    /\ execs \in 0..MaxPrompts
    /\ active \in 0..1

(* ======================= properties of the dispatch loop =============== *)

Last(s) == s[Len(s)]

ExitIn(s) == \E i \in DOMAIN s : s[i] = "Exit"

\* C1: in a failure-free run the loop issues exactly one prompt and executes
\* exactly one command per outcome, the first Exit outcome is the last one
\* matched and ends the loop successfully, and nothing is prompted after it;
\* so <<Process, Process, GoBack, Exit>> takes exactly 4 prompts.
C1_PromptCount ==
    exit.status # "failure" =>
        /\ pc \in {"prompt", "process", "await"} =>
              /\ ~ExitIn(outcomes)
              /\ prompts = Len(outcomes) + (IF pc = "prompt" THEN 0 ELSE 1)
              /\ execs = Len(outcomes) + (IF pc = "await" THEN 1 ELSE 0)
        /\ pc = "done" =>
              /\ outcomes # <<>>
              /\ Last(outcomes) = "Exit"
              /\ ~ExitIn(SubSeq(outcomes, 1, Len(outcomes) - 1))
              /\ prompts = Len(outcomes)
              /\ execs = Len(outcomes)
              /\ ~ENABLED Prompt
              /\ ~ENABLED Process

C1_Witness ==
    /\ pc = "done"
    /\ outcomes = <<"Process", "Process", "GoBack", "Exit">>
    /\ prompts = 4
    /\ execs = 4

LoopExited == pc = "done" /\ prompts > 0

ExitedByExit ==
    /\ exit.status = "success"
    /\ outcomes # <<>>
    /\ Last(outcomes) = "Exit"

ExitedByCommandFailure ==
    /\ exit.status = "failure"
    /\ execs = prompts
    /\ ~res.ok
    /\ exit.error = res.err

ExitedByPromptFailure ==
    /\ exit.status = "failure"
    /\ execs = prompts - 1
    /\ exit.error.op = "prompt_for_command"

StartupFailure ==
    /\ exit.status = "failure"
    /\ prompts = 0
    /\ exit.error.op \in {"load", "from_config"}

\* C2 as stated: the process has ended only by an Exit outcome (with success)
\* or by a failure propagated from a Command or from Context construction.
C2_ExitOnlyByExitOrCommandFailure ==
    pc = "done" => ExitedByExit \/ ExitedByCommandFailure \/ StartupFailure

\* C2: the loop has exited only by an Exit outcome (the process then ends
\* successfully) or by a failure propagated from a Command or from the
\* prompt (the process then ends with that failure); before the loop, only a
\* failure of configuration loading or Context construction ends the process.
C2_ExitCauses ==
    /\ LoopExited => ExitedByExit \/ ExitedByCommandFailure \/ ExitedByPromptFailure
    /\ (pc = "done" /\ prompts = 0) => StartupFailure
    /\ exit.status = "success" => pc = "done" /\ ExitedByExit
    /\ exit.status = "failure" => pc = "done"
    /\ exit.status = "running" => pc # "done"

C2_Witness ==
    /\ LoopExited
    /\ ExitedByPromptFailure
    /\ outcomes = <<"Process", "GoBack">>

\* C3 as stated: a command failing with a NetworkError never ends the
\* session; the loop goes on to the next prompt.
C3_NetworkErrorKeepsSession ==
    ~(pc = "done" /\ exit.status = "failure" /\ exit.error.type = "ClientError")

\* C4: once process_command has returned a failure to main, the failure has
\* not become an outcome, the process has ended reporting exactly that
\* error, and no further prompt or command follows.
C4_FailurePropagates ==
    (execs >= 1 /\ cpc = "idle" /\ ~res.ok) =>
        /\ pc = "done"
        /\ exit = [status |-> "failure", error |-> res.err]
        /\ prompts = execs
        /\ Len(outcomes) = execs - 1
        /\ ~ExitIn(outcomes)
        /\ ~ENABLED Prompt
        /\ ~ENABLED Process

C4_Witness ==
    /\ execs = 2
    /\ cpc = "idle"
    /\ ~res.ok
    /\ res.err.type = "SignerError"
    /\ pc = "done"

(* ===================== properties of build_and_send_tx ================= *)

StepOrder == <<"fetch", "build", "sign", "submit">>

StepNames(t) == [i \in DOMAIN t |-> t[i].step]

StepCount(t, name) == Cardinality({i \in DOMAIN t : t[i].step = name})

InCall == tpc # "idle"

Returned == tpc = "ret"

\* C5: when the block-reference fetch of a call fails, the call has done
\* nothing else (no transaction built, nothing signed, nothing submitted, no
\* network write) and returns the fetch's error.
C5_FetchFailure ==
    (InCall /\ trace # <<>> /\ ~trace[1].ok) =>
        /\ trace[1].step = "fetch"
        /\ Len(trace) = 1
        /\ Returned
        /\ tx = NoTx
        /\ netWrites < calls
        /\ ret = Err(NoSig, AnyhowFrom(trace[1].err))
        /\ ret.err.type = "ClientError"
        /\ ret.err.op = "get_latest_blockhash"

C5_Witness ==
    /\ Returned
    /\ calls = 2
    /\ Len(trace) = 1
    /\ ~trace[1].ok
    /\ netWrites = 1

\* C6: the steps of a call are a prefix of fetch, build, sign, submit, each
\* performed once; a failed step is the last step of the call and the call
\* returns that step's error; a Signature is returned only after all four
\* steps succeeded.
C6_StepOrderAndAbort ==
    InCall =>
        /\ Len(trace) <= Len(StepOrder)
        /\ StepNames(trace) = SubSeq(StepOrder, 1, Len(trace))
        /\ \A i \in 1..(Len(trace) - 1) : trace[i].ok
        /\ tpc = "fetch" => trace = <<>>
        /\ tpc = "sign" => Len(trace) = 1 /\ trace[1].ok
        /\ tpc = "send" => Len(trace) = 3 /\ trace[3].ok
        /\ Returned =>
              /\ trace # <<>>
              /\ ret.ok <=> (Len(trace) = 4 /\ \A i \in DOMAIN trace : trace[i].ok)
              /\ ret.ok => ret.val # NoSig
              /\ ~ret.ok =>
                    /\ ~Last(trace).ok
                    /\ ret.val = NoSig
                    /\ ret.err = AnyhowFrom(Last(trace).err)

C6_Witness ==
    /\ Returned
    /\ Len(trace) = 3
    /\ ~trace[3].ok
    /\ trace[3].err.op = "NotEnoughSigners"
    /\ ret.err.type = "SignerError"
    /\ netWrites = 0

RequiredSigners == {ctx.pubkey} \cup instruction

FullySigned(t, hash) ==
    /\ t.recent_blockhash = hash
    /\ {s.by : s \in t.signatures} = RequiredSigners
    /\ \A s \in t.signatures : s.hash = hash /\ s.by \in signers

\* C7: whatever is handed to send_and_confirm_transaction carries the
\* signature of every required signer, made by the provided signers over the
\* block reference fetched in the same call, after try_sign succeeded.
C7_SignedBeforeSubmission ==
    /\ tpc = "send" =>
          /\ Len(trace) = 3
          /\ trace[1].step = "fetch" /\ trace[1].ok
          /\ trace[3].step = "sign" /\ trace[3].ok
          /\ FullySigned(tx, trace[1].hash)
    /\ \A i \in DOMAIN trace :
          trace[i].step = "submit" =>
              /\ i = 4
              /\ trace[3].step = "sign" /\ trace[3].ok
              /\ trace[i].signed = RequiredSigners
              /\ trace[i].signed \subseteq signers
              /\ trace[i].hash = trace[1].hash
              /\ trace[i].hash # NoHash

C7_Witness ==
    /\ Returned
    /\ Len(trace) = 4
    /\ trace[4].step = "submit"
    /\ Cardinality(trace[4].signed) = 2
    /\ instruction # {}

\* C8: a call reads the network at most once and writes to it at most once,
\* exactly once each when it succeeds; the block reference signed is the one
\* fetched in this call; and a call starts with no block reference or
\* transaction left from an earlier call.
C8_SideEffectsAndFreshness ==
    /\ netReads <= calls
    /\ netWrites <= netReads
    /\ tpc \in {"idle", "fetch"} => recent_blockhash = NoHash /\ tx = NoTx
    /\ tpc = "fetch" => netReads = calls - 1
    /\ InCall =>
          /\ StepCount(trace, "fetch") <= 1
          /\ StepCount(trace, "submit") <= 1
          /\ tpc # "fetch" => netReads = calls /\ StepCount(trace, "fetch") = 1
          /\ (Returned /\ ret.ok) =>
                /\ StepCount(trace, "fetch") = 1
                /\ StepCount(trace, "submit") = 1
          /\ \A i \in DOMAIN trace :
                (trace[i].step = "sign" /\ trace[i].ok) =>
                    /\ trace[1].step = "fetch"
                    /\ trace[i].hash = trace[1].hash
                    /\ trace[i].hash = recent_blockhash

C8_Witness ==
    /\ calls = 2
    /\ netReads = 2
    /\ netWrites = 2
    /\ Returned
    /\ ret.ok

\* C9: at most one command is in execution at any time; main prompts, and
\* starts a command, only when no command is in execution, also while the
\* assembler is suspended on the network.
C9_SingleActiveCommand ==
    /\ active \in {0, 1}
    /\ active = 1 <=> cpc \in {"running", "in_tx"}
    /\ active = 1 => pc = "await"
    /\ InCall => pc = "await" /\ cpc = "in_tx"
    /\ pc \in {"prompt", "process", "done"} => active = 0 /\ cpc = "idle"
    /\ ENABLED Prompt => active = 0
    /\ ENABLED Process => active = 0
    /\ execs <= prompts

C9_Witness ==
    /\ tpc = "send"
    /\ active = 1
    /\ execs = 2
    /\ ~ENABLED Prompt

(* ========================= properties of Commission ==================== *)

DigitChar(d) == <<"0", "1", "2", "3", "4", "5", "6", "7", "8", "9">>[d + 1]

\* the decimal text of a natural number
RECURSIVE Dec(_)
Dec(n) == IF n < 10 THEN <<DigitChar(n)>> ELSE Dec(n \div 10) \o <<DigitChar(n % 10)>>

\* the numbers up to MaxValue whose decimal text the operator can type
Typeable == {c \in 0..MaxValue : \A i \in DOMAIN Dec(c) : Dec(c)[i] \in Digits}

DecOf == [c \in Typeable |-> Dec(c)]

Blank(t) == \A i \in DOMAIN t : t[i] \in Whitespace

\* t is body with whitespace before and after it
Surrounded(t, body) ==
    \E i \in 0..(Len(t) - Len(body)) :
        /\ SubSeq(t, i + 1, i + Len(body)) = body
        /\ Blank(SubSeq(t, 1, i))
        /\ Blank(SubSeq(t, i + Len(body) + 1, Len(t)))

\* C10: Commission::from_str accepts the text of every integer in 0..100,
\* with or without surrounding whitespace, with that value; rejects the text
\* of every integer above 100 and of every negative integer; accepts blank
\* text with value 0; and never yields a value outside 0..100.
C10_CommissionParsing ==
    parsed.done =>
        /\ parsed.ok => parsed.val \in 0..100
        /\ Blank(input) => parsed.ok /\ parsed.val = 0
        /\ \A c \in Typeable :
              /\ Surrounded(input, DecOf[c]) =>
                    IF c <= 100 THEN parsed.ok /\ parsed.val = c ELSE ~parsed.ok
              /\ (c > 0 /\ Surrounded(input, <<"-">> \o DecOf[c])) => ~parsed.ok

C10_Witness ==
    /\ parsed.done
    /\ input = <<" ", "1", "0", "0">>
    /\ parsed.ok
    /\ parsed.val = 100

(* ================== properties of SolAmount and lamports =============== *)

\* the literal in the text of the amount prompt, and the f64 it parses to
AmountLiteral == f64_literal(trim(input))
AmountValue == f64_from_str(trim(input)).val

\* the text parses as a positive finite decimal
PositiveFiniteDecimal ==
    /\ AmountLiteral.kind = "decimal"
    /\ AmountValue.cls = "finite"
    /\ ~AmountValue.neg

\* digits * 10^exp10 * LAMPORTS_PER_SOL <= u64::MAX, without rounding
ExactFits(digits, exp10) ==
    IF exp10 >= 0
      THEN BigCmp(BigMulPow10(BigMul(BigOfDigits(digits), BigOfInt(LAMPORTS_PER_SOL)), exp10),
                  U64Max) <= 0
    ELSE BigCmp(BigMul(BigOfDigits(digits), BigOfInt(LAMPORTS_PER_SOL)),
                BigMulPow10(U64Max, 0 - exp10)) <= 0

\* C11: for every text that parses as a positive finite decimal,
\* SolAmount::from_str succeeds if and only if the text's value times
\* LAMPORTS_PER_SOL is at most u64::MAX, and otherwise fails with the
\* overflow error; to_lamports of a constructed SolAmount never exceeds
\* u64::MAX.
C11_OverflowBound ==
    /\ (amount.done /\ PositiveFiniteDecimal) =>
          /\ amount.ok <=> ExactFits(AmountLiteral.digits, AmountLiteral.exp10)
          /\ ~amount.ok => amount.err = "too_large"
    /\ conv.op = "to_lamports" => BigCmp(conv.back, U64Max) <= 0

\* C12: SolAmount::from_str fails on blank text with the error of a missing
\* amount, on text that is not a number, and on zero, negative, infinite
\* and NaN values; every SolAmount constructed is finite and above zero.
C12_MandatoryPositive ==
    amount.done =>
        /\ Blank(input) => ~amount.ok /\ amount.err = "empty"
        /\ (~Blank(input) /\ AmountLiteral.kind = "invalid") =>
              ~amount.ok /\ amount.err = "invalid"
        /\ (AmountLiteral.kind # "invalid" /\ ~PositiveFiniteDecimal) =>
              ~amount.ok /\ amount.err = "not_positive_finite"
        /\ amount.ok =>
              /\ PositiveFiniteDecimal
              /\ amount.sol = AmountValue
              /\ amount.sol.cls = "finite"
              /\ ~amount.sol.neg

C12_Witness ==
    /\ amount.done
    /\ input = <<" ", " ">>
    /\ ~amount.ok
    /\ amount.err = "empty"

\* a lamport quantity that is a whole number of SOL
WholeSol(l) == BigMod(l, LAMPORTS_PER_SOL) = 0

\* a natural number that an f64 holds without rounding: at most 53 bits
\* from its highest to its lowest set bit
ExactlyRepresentable(n) ==
    n = <<>> \/ BigBitLen(n) - BigTrailingZeros(n) <= MantissaBits

\* floor of m * 2^e
FloorScaled(m, e) == IF e >= 0 THEN BigShl(m, e) ELSE BigShr(m, 0 - e)

\* floor of sol * LAMPORTS_PER_SOL, without rounding, for a finite sol
ExactLamports(sol) ==
    IF sol.cls = "zero" THEN <<>>
    ELSE FloorScaled(BigMul(sol.m, BigOfInt(LAMPORTS_PER_SOL)), sol.e)

\* whether sol * LAMPORTS_PER_SOL is an f64 itself
ExactProduct(sol) ==
    \/ sol.cls = "zero"
    \/ /\ ExactlyRepresentable(BigMul(sol.m, BigOfInt(LAMPORTS_PER_SOL)))
       /\ sol.e >= MinBinaryExponent

\* a natural number, or u64::MAX if it is above that
Saturated(n) == IF BigCmp(n, U64Max) > 0 THEN U64Max ELSE n

\* floor of an f64 that is not negative, within u64
FloorToU64(p) ==
    IF p.cls = "inf" THEN U64Max
    ELSE IF p.cls = "zero" THEN <<>>
    ELSE Saturated(FloorScaled(p.m, p.e))

\* conv holds a conversion of a sol that is zero or above
SolConverted ==
    /\ conv.op \in {"sol_to_lamports", "to_lamports"}
    /\ conv.sol.cls \in {"zero", "finite", "inf"}
    /\ conv.sol.cls = "zero" \/ ~conv.sol.neg

\* C13: for a lamport quantity L that is a whole number of SOL,
\* sol_to_lamports(lamports_to_sol(L)) = L exactly when an f64 holds L
\* without rounding; sol_to_lamports of a sol that is not negative is the
\* floor of the f64 product sol * LAMPORTS_PER_SOL, or u64::MAX when that
\* product is above it, and is the floor of the unrounded product whenever
\* that product is an f64.
C13_RoundTripAndTruncation ==
    /\ (conv.op = "lamports_to_sol" /\ WholeSol(conv.lamports)) =>
          (conv.back = conv.lamports <=> ExactlyRepresentable(conv.lamports))
    /\ SolConverted =>
          /\ conv.back = FloorToU64(F64Mul(conv.sol, LamportsPerSolF64))
          /\ (conv.sol.cls # "inf" /\ ExactProduct(conv.sol)) =>
                conv.back = Saturated(ExactLamports(conv.sol))

C13_Witness ==
    /\ conv.op = "lamports_to_sol"
    /\ conv.lamports = U64OfGroups(<<4, 611686018, 0>>)
    /\ WholeSol(conv.lamports)
    /\ conv.back = conv.lamports

\* C13 as first stated: the round trip gives L back for every L that is a
\* whole number of SOL, and sol_to_lamports is the floor of the unrounded
\* product sol * LAMPORTS_PER_SOL.
C13_RoundTripExact ==
    /\ (conv.op = "lamports_to_sol" /\ WholeSol(conv.lamports)) =>
          conv.back = conv.lamports
    /\ (SolConverted /\ conv.sol.cls # "inf") =>
          conv.back = ExactLamports(conv.sol)

\* the f64 of lamports / LAMPORTS_PER_SOL for a whole number of SOL
WholeSolF64(l) == F64FromU64(BigDiv(l, LAMPORTS_PER_SOL))

\* C14: for every u64, lamports_to_sol returns a finite value that is not
\* negative: zero for 0 only, a finite value above zero for u64::MAX, and
\* exactly k for k * LAMPORTS_PER_SOL whenever an f64 holds that quantity
\* without rounding, as it does every one up to 2^53.
C14_LamportsToSolRange ==
    conv.op = "lamports_to_sol" =>
        /\ BigCmp(conv.lamports, U64Max) <= 0
        /\ is_finite(conv.sol)
        /\ ~conv.sol.neg
        /\ conv.sol.cls = "zero" <=> conv.lamports = <<>>
        /\ conv.lamports = U64Max => conv.sol.cls = "finite"
        /\ (WholeSol(conv.lamports) /\ ExactlyRepresentable(conv.lamports)) =>
              conv.sol = WholeSolF64(conv.lamports)

C14_Witness ==
    /\ conv.op = "lamports_to_sol"
    /\ conv.lamports = U64Max
    /\ conv.sol.cls = "finite"
    /\ ~conv.sol.neg

\* C14 as first stated: exactly k for every k * LAMPORTS_PER_SOL.
C14_LamportsToSolExact ==
    conv.op = "lamports_to_sol" =>
        /\ is_finite(conv.sol)
        /\ ~conv.sol.neg
        /\ conv.lamports = <<>> => conv.sol.cls = "zero"
        /\ conv.lamports = U64Max => conv.sol.cls = "finite"
        /\ WholeSol(conv.lamports) => conv.sol = WholeSolF64(conv.lamports)

(* ================== further properties of the dispatch loop ============ *)

\* C15: the Context is built once, by from_config before the first prompt,
\* and no later step changes it: every prompt, command and call of
\* build_and_send_tx sees the same RPC capability and signing identity, and
\* the fee payer of every transaction is the Context's public key.
C15_ContextImmutable ==
    /\ [](/\ prompts > 0 => ctx # NoCtx
          /\ ctx # NoCtx => ctx.rpc = "rpc" /\ ctx.pubkey \in Keys
          /\ pc \in {"load_config", "from_config"} => ctx = NoCtx
          /\ tx # NoTx => tx.message.payer = ctx.pubkey)
    /\ [][/\ ctx # NoCtx => ctx' = ctx
          /\ ctx' # ctx => pc = "from_config" /\ prompts = 0]_vars

C15_Witness ==
    /\ execs = 2
    /\ calls = 2
    /\ Returned
    /\ ~ret.ok
    /\ tx.message.payer = ctx.pubkey

\* C16: when configuration loading or Context construction fails, the
\* process has ended reporting that failure, without a retry, and no prompt
\* was issued, no command executed and no network operation performed.
C16_StartupFailureTerminal ==
    exit.error.op \in {"load", "from_config"} =>
        /\ pc = "done"
        /\ exit.status = "failure"
        /\ ctx = NoCtx
        /\ prompts = 0
        /\ execs = 0
        /\ calls = 0
        /\ netReads = 0
        /\ netWrites = 0
        /\ ~ENABLED LoadConfig
        /\ ~ENABLED FromConfig
        /\ ~ENABLED Prompt

C16_Witness ==
    /\ pc = "done"
    /\ exit.status = "failure"
    /\ exit.error.type = "TomlParseError"
    /\ exit.error.op = "load"

C18_EveryInvocationHasOutcome ==
    cpc = "done" => res.ok /\ res.val \in CommandExec

\* C18: every completed command invocation has produced either exactly one
\* of Process, GoBack, Exit or a failure and no outcome; the loop has matched
\* on exactly one outcome for each invocation that returned one and on none
\* for a failed one.
C18_OneOutcomePerInvocation ==
    /\ cpc = "done" =>
          /\ res.ok => res.val \in CommandExec /\ res.err = NoErr
          /\ ~res.ok => res.val = "none" /\ res.err # NoErr
    /\ \A i \in DOMAIN outcomes : outcomes[i] \in CommandExec
    /\ Len(outcomes) = execs - (IF pc = "await" THEN 1 ELSE 0)
                             - (IF ExitedByCommandFailure THEN 1 ELSE 0)
    /\ (outcomes # <<>> /\ cpc = "idle" /\ res.ok) => Last(outcomes) = res.val

C18_Witness ==
    /\ pc = "prompt"
    /\ execs = 3
    /\ outcomes = <<"GoBack", "Process", "Process">>

\* C19: once the prompt has failed, the process has ended with that failure
\* and not successfully, no command was executed in that iteration, and no
\* further prompt or command follows.
C19_PromptFailureEndsSession ==
    exit.error.op = "prompt_for_command" =>
        /\ pc = "done"
        /\ exit.status = "failure"
        /\ exit.error.type = "PromptError"
        /\ execs = prompts - 1
        /\ Len(outcomes) = execs
        /\ active = 0
        /\ executing = 0
        /\ ~ENABLED Prompt
        /\ ~ENABLED Process

C19_Witness ==
    /\ pc = "done"
    /\ exit.error.op = "prompt_for_command"
    /\ prompts = 3
    /\ execs = 2

\* C20: prompts and command executions alternate, starting with a prompt:
\* a prompt is issued only when every earlier prompt has been followed by
\* its execution, a command is executed only right after a successful
\* prompt and is the command that prompt returned, and executions never
\* outnumber prompts.
C20_PromptExecAlternation ==
    /\ [](/\ execs <= prompts
          /\ prompts <= execs + 1
          /\ pc = "process" => prompts = execs + 1 /\ command \in Commands
          /\ pc \in {"prompt", "await"} => prompts = execs
          /\ pc = "await" => executing = command /\ command \in Commands
          /\ pc # "await" => executing = 0)
    /\ [][/\ prompts' # prompts => prompts' = prompts + 1 /\ prompts = execs
          /\ execs' # execs =>
                /\ execs' = execs + 1
                /\ pc = "process"
                /\ prompts = execs + 1
                /\ executing' = command
                /\ command' = command]_vars

C20_Witness ==
    /\ pc = "await"
    /\ prompts = 3
    /\ execs = 3
    /\ executing = 2
    /\ command = 2
====
